---------------------------- MODULE Spec2Model ----------------------------
(***************************************************************************)
(* Request lifecycle and batch document generation of DeclaraFacil         *)
(* (backend/src/app.module.ts, class RequestService).                      *)
(*                                                                         *)
(* Every service method is an async function: each `await` on a            *)
(* collaborator (users service, declaration service, request repository,   *)
(* pdf writer, upload service) is a suspension point.  One action of the   *)
(* model is the code that runs from one suspension point to the next.      *)
(***************************************************************************)
EXTENDS Integers, Sequences, FiniteSets, TLC

(***************************************************************************)
(* Bounds of the model.                                                    *)
(***************************************************************************)
MaxRequests == 2      \* rows the request table may hold
MaxBatch == 2         \* longest requestIds list of one call
NumProcs == 2         \* service calls that may be in flight together
MaxConcurrentBatch == 1   \* longest requestIds list of interleaved calls
MaxCepLen == 9        \* longest postal code handed to formatCep
MaxTemplateLen == 2   \* pieces of the longest template text
MaxValueLen == 1      \* pieces of the longest placeholder value

NULL == "NULL"

(***************************************************************************)
(* Collaborator data.                                                      *)
(***************************************************************************)
\* Identity Store: the users it knows, with their admin flag.
UserStore == [u1 |-> [is_admin |-> FALSE], adm |-> [is_admin |-> TRUE]]

\* Caller ids the HTTP layer may hand in; "ghost" is known to no store.
CallerIds == {"u1", "adm", "ghost"}

\* usersService.findById: the user, or null for an unknown id.
findById(userId) == IF userId \in DOMAIN UserStore THEN userId ELSE NULL

is_admin(user) == UserStore[user].is_admin

\* Template Store: the declarations it holds, and the ids a caller may name
\* ("dx" names no declaration).
DeclarationStore == {"d1", "d2"}
DeclarationIds == DeclarationStore \cup {"dx"}

\* The callers and declaration ids of interleaved calls: who calls
\* createRequest, and who calls updateStatus and generatePdf.
ConcurrentRequesterIds == {"u1"}
ConcurrentAttendantIds == {"adm"}
ConcurrentDeclarationIds == {"d1"}

\* declarationService.findById: the declaration, or null for an unknown id.
findDeclarationById(declarationId) ==
    IF declarationId \in DeclarationStore THEN declarationId ELSE NULL

\* enum RequestStatus
PENDING == "PENDING"
PROCESSING == "PROCESSING"
COMPLETED == "COMPLETED"
REJECTED == "REJECTED"
RequestStatus == {PENDING, PROCESSING, COMPLETED, REJECTED}

\* The null of the url and generation_date columns.
NoUrl == <<>>
NoDate == <<>>

Procs == 1 .. NumProcs

VARIABLES
    requests,      \* request table: row i is the request with id i
    pc,            \* per call slot: the suspension point it is at
    arg,           \* per call slot: operation and arguments
    idx,           \* per call slot: position in requestIds
    result,        \* per call slot: the local `requests` array / return value
    outcome,       \* per call slot: how the call ended
    hist,          \* per call slot: what happened to each processed id
    uploaded,      \* per call slot: file names the call published
    scratch,       \* per call slot: files of the call present in tmp/
    closure        \* a local closure of generatePdf applied on its own

vars == <<requests, pc, arg, idx, result, outcome, hist, uploaded, scratch,
         closure>>

\* The state of the service.
serviceVars == <<requests, pc, arg, idx, result, outcome, hist, uploaded, scratch>>

NoArg == [op |-> "none", caller |-> NULL, declaration |-> NULL,
          ids |-> <<>>, status |-> NULL]

Running == [kind |-> "running", exc |-> "", msg |-> ""]
Returned == [kind |-> "return", exc |-> "", msg |-> ""]
Thrown(exc, msg) == [kind |-> "throw", exc |-> exc, msg |-> msg]

PermissionMsg == "You do not have permission to perform this action."

\* No closure is being applied.
NoClosure == [fn |-> "none"]

\* The service after construction: an empty table, no call in flight.
Idle ==
    /\ requests = <<>>
    /\ pc = [p \in Procs |-> "idle"]
    /\ arg = [p \in Procs |-> NoArg]
    /\ idx = [p \in Procs |-> 0]
    /\ result = [p \in Procs |-> <<>>]
    /\ outcome = [p \in Procs |-> Running]
    /\ hist = [p \in Procs |-> <<>>]
    /\ uploaded = [p \in Procs |-> {}]
    /\ scratch = [p \in Procs |-> {}]

Init == Idle /\ closure = NoClosure

(***************************************************************************)
(* Helpers shared by the operations.                                       *)
(***************************************************************************)
\* A call begins: arguments bound, locals fresh.
Enter(p, a) ==
    /\ pc[p] = "idle"
    /\ arg' = [arg EXCEPT ![p] = a]
    /\ idx' = [idx EXCEPT ![p] = 1]
    /\ result' = [result EXCEPT ![p] = <<>>]
    /\ hist' = [hist EXCEPT ![p] = <<>>]
    /\ uploaded' = [uploaded EXCEPT ![p] = {}]
    /\ scratch' = [scratch EXCEPT ![p] = {}]

\* The call ends by throwing.
Throw(p, exc, msg) ==
    /\ pc' = [pc EXCEPT ![p] = "done"]
    /\ outcome' = [outcome EXCEPT ![p] = Thrown(exc, msg)]

\* The call ends by returning.
Return(p) ==
    /\ pc' = [pc EXCEPT ![p] = "done"]
    /\ outcome' = [outcome EXCEPT ![p] = Returned]

Goto(p, label) ==
    /\ pc' = [pc EXCEPT ![p] = label]
    /\ UNCHANGED outcome

\* What a read of the request table yields when no row matches (null), and
\* the placeholder for a read that failed.
NoRow == [user |-> NULL, declaration |-> NULL, status |-> "missing",
          url |-> NoUrl, generation_date |-> NoDate, attendant |-> NULL]
Unread == [NoRow EXCEPT !.status = "unread"]

Exists(table, requestId) == requestId \in 1 .. Len(table)

\* getRequestById: findOne({where: {id}}), the row or null.
getRequestById(table, requestId) ==
    IF Exists(table, requestId) THEN table[requestId] ELSE NoRow

(***************************************************************************)
(* createRequest                                                           *)
(***************************************************************************)
\* The check without the declaration in its where clause.
checkForPendingRequests_AnyDeclaration(table, userId, declarationId) ==
    \E i \in 1 .. Len(table) :
        /\ table[i].user = userId
        /\ table[i].status = PENDING

\* checkForPendingRequests: findOne({user.id, declaration.id, status PENDING})
checkForPendingRequests(table, userId, declarationId) ==
    \E i \in 1 .. Len(table) :
        /\ table[i].user = userId
        /\ table[i].declaration = declarationId
        /\ table[i].status = PENDING

\* requestRepository.create({user, declaration}): column defaults apply.
NewRequest(user, declarationId) ==
    [user |-> user, declaration |-> declarationId, status |-> PENDING,
     url |-> NoUrl, generation_date |-> NoDate, attendant |-> NULL]

\* Lines 145-154: usersService.findById, then the role guard.
CreateGuard(userId) == findById(userId) # NULL /\ is_admin(findById(userId))

CreateRequest_Begin(p, userId, declarationId) ==
    /\ Enter(p, [NoArg EXCEPT !.op = "createRequest", !.caller = userId,
                              !.declaration = declarationId])
    /\ IF CreateGuard(userId)
          THEN Throw(p, "ForbiddenException", PermissionMsg)
          ELSE Goto(p, "c_decl")
    /\ UNCHANGED <<requests, closure>>

\* Lines 156-159: declarationService.findById.
CreateRequest_FindDeclaration(p) ==
    /\ pc[p] = "c_decl"
    /\ IF findDeclarationById(arg[p].declaration) = NULL
          THEN Throw(p, "ForbiddenException", "Declaration not found.")
          ELSE Goto(p, "c_check")
    /\ UNCHANGED <<requests, arg, idx, result, hist, uploaded, scratch,
                  closure>>

\* Lines 161-169: the pending-existence check.
CreateRequest_Check(p) ==
    /\ pc[p] = "c_check"
    /\ IF checkForPendingRequests(requests, arg[p].caller, arg[p].declaration)
          THEN Throw(p, "ConflictException", "You already have a pending request.")
          ELSE Goto(p, "c_save")
    /\ UNCHANGED <<requests, arg, idx, result, hist, uploaded, scratch,
                  closure>>

\* A save that looks for a PENDING request again before it inserts.
CreateRequest_Save_Rechecked(p) ==
    /\ pc[p] = "c_save"
    /\ Len(requests) < MaxRequests
    /\ IF checkForPendingRequests(requests, arg[p].caller, arg[p].declaration)
          THEN /\ Throw(p, "ConflictException", "You already have a pending request.")
               /\ UNCHANGED <<requests, result>>
          ELSE /\ requests' = Append(requests,
                                     NewRequest(findById(arg[p].caller),
                                                arg[p].declaration))
               /\ result' = [result EXCEPT ![p] = <<Len(requests) + 1>>]
               /\ Return(p)
    /\ UNCHANGED <<arg, idx, hist, uploaded, scratch, closure>>

\* Lines 171-176: create and save.
CreateRequest_Save(p) ==
    /\ pc[p] = "c_save"
    /\ Len(requests) < MaxRequests
    /\ requests' = Append(requests,
                          NewRequest(findById(arg[p].caller), arg[p].declaration))
    /\ result' = [result EXCEPT ![p] = <<Len(requests) + 1>>]
    /\ Return(p)
    /\ UNCHANGED <<arg, idx, hist, uploaded, scratch, closure>>

(***************************************************************************)
(* Loop bookkeeping shared by updateStatus and generatePdf.                *)
(***************************************************************************)
CurrentId(p) == arg[p].ids[idx[p]]

\* An id of the list is taken up: what the load saw, and the fate so far.
Note(p, seen, fate) ==
    hist' = [hist EXCEPT ![p] = Append(@, [id |-> CurrentId(p), seen |-> seen,
                                           fate |-> fate])]

\* The fate of the id in progress is settled.
Settle(p, fate) ==
    hist' = [hist EXCEPT ![p][idx[p]].fate = fate]

\* `for (const requestId of requestIds)`: next id, or the return after the loop.
Advance(p) ==
    IF idx[p] >= Len(arg[p].ids)
       THEN Return(p) /\ UNCHANGED idx
       ELSE Goto(p, arg[p].op) /\ idx' = [idx EXCEPT ![p] = @ + 1]

\* The role guard of the admin operations (lines 184 and 272).
AdminGuard(userId) == findById(userId) # NULL /\ ~is_admin(findById(userId))

(***************************************************************************)
(* updateStatus                                                            *)
(***************************************************************************)
completedStatus == {COMPLETED, REJECTED}

\* Lines 197-203: the condition under which an id is passed over.
SkipUpdate(current, status) ==
    \/ current \in completedStatus
    \/ (status \in completedStatus /\ current # PROCESSING)

\* Lines 183-191.
UpdateStatus_Begin(p, userId, requestIds, status) ==
    /\ Enter(p, [NoArg EXCEPT !.op = "updateStatus", !.caller = userId,
                              !.ids = requestIds, !.status = status])
    /\ IF AdminGuard(userId)
          THEN Throw(p, "ForbiddenException", PermissionMsg)
          ELSE IF requestIds = <<>> THEN Return(p)
                                    ELSE Goto(p, "updateStatus")
    /\ UNCHANGED <<requests, closure>>

\* Lines 193-203: getRequestById, then the test on requestData.status.
UpdateStatus_Load(p) ==
    /\ pc[p] = "updateStatus"
    /\ LET requestData == getRequestById(requests, CurrentId(p)) IN
       IF requestData = NoRow
          THEN \* requestData is null: reading requestData.status throws
               /\ Note(p, requestData, "crash")
               /\ Throw(p, "TypeError", "requestData is null")
               /\ UNCHANGED idx
          ELSE IF SkipUpdate(requestData.status, arg[p].status)
                  THEN /\ Note(p, requestData, "skip")
                       /\ Advance(p)
                  ELSE /\ Note(p, requestData, "run")
                       /\ Goto(p, "u_write")
                       /\ UNCHANGED idx
    /\ UNCHANGED <<requests, arg, result, uploaded, scratch, closure>>

\* Lines 205-210: requestRepository.update({id}, {status}).
UpdateStatus_Write(p) ==
    /\ pc[p] = "u_write"
    /\ requests' = [requests EXCEPT ![CurrentId(p)].status = arg[p].status]
    /\ Goto(p, "u_read")
    /\ UNCHANGED <<arg, idx, result, hist, uploaded, scratch, closure>>

\* Lines 212-218: read back and push the view.
UpdateStatus_Read(p) ==
    /\ pc[p] = "u_read"
    /\ IF requests[CurrentId(p)].user = NULL
          THEN \* updatedRequest.user is null: reading .name throws
               /\ Settle(p, "crash")
               /\ Throw(p, "TypeError", "updatedRequest.user is null")
               /\ UNCHANGED <<idx, result>>
          ELSE /\ Settle(p, "updated")
               /\ result' = [result EXCEPT ![p] =
                     Append(@, [id |-> CurrentId(p),
                                status |-> requests[CurrentId(p)].status])]
               /\ Advance(p)
    /\ UNCHANGED <<requests, arg, uploaded, scratch, closure>>

(***************************************************************************)
(* generatePdf                                                             *)
(***************************************************************************)
\* Line 348: `${requestId}_${Date.now()}.pdf`.  The clock reading is
\* abstracted to the call and the position that read it.
FileName(p) == <<CurrentId(p), p, idx[p]>>

\* uploadStorage returns a signed URL for the object it stored.
SignedUrl(fileName) == <<fileName[1], fileName[2]>>

\* Line 370: new Date(), abstracted likewise.
Now(p) == <<p>>

\* An update that applies to a request still PENDING only.
GenerationUpdate_IfPending(row, p) ==
    IF row.status = PENDING
       THEN [row EXCEPT !.url = SignedUrl(FileName(p)),
                        !.status = PROCESSING,
                        !.generation_date = Now(p),
                        !.attendant = findById(arg[p].caller)]
       ELSE row

\* Lines 365-373: the one update of generatePdf.
GenerationUpdate(row, p) ==
    [row EXCEPT !.url = SignedUrl(FileName(p)),
                !.status = PROCESSING,
                !.generation_date = Now(p),
                !.attendant = findById(arg[p].caller)]

\* The test passing over missing requests only.
SkipGenerate_MissingOnly(requestData) == requestData = NoRow

\* The test passing over finished requests only.
SkipGenerate_FinishedOnly(requestData) ==
    requestData = NoRow \/ requestData.status \in completedStatus

\* Line 309: the condition under which an id is passed over.
SkipGenerate(requestData) ==
    requestData = NoRow \/ requestData.status # PENDING

\* A catch block that rethrows.
Catch_Rethrow(p) ==
    /\ Settle(p, "error")
    /\ Throw(p, "Error", "rethrown")
    /\ UNCHANGED idx

\* Lines 385-387: the catch block logs and the loop goes on.
Catch(p) ==
    /\ Settle(p, "error")
    /\ Advance(p)

\* Lines 270-303.
GeneratePdf_Begin(p, userId, requestIds) ==
    /\ Enter(p, [NoArg EXCEPT !.op = "generatePdf", !.caller = userId,
                              !.ids = requestIds])
    /\ IF AdminGuard(userId)
          THEN Throw(p, "ForbiddenException", PermissionMsg)
          ELSE IF requestIds = <<>> THEN Return(p)
                                    ELSE Goto(p, "generatePdf")
    /\ UNCHANGED <<requests, closure>>

\* Lines 307-314: getRequestById, then the PENDING test.
GeneratePdf_Load(p) ==
    /\ pc[p] = "generatePdf"
    /\ \/ \* the repository read fails
          /\ Note(p, Unread, "error")
          /\ Advance(p)
       \/ LET requestData == getRequestById(requests, CurrentId(p)) IN
          IF SkipGenerate(requestData)
             THEN Note(p, requestData, "skip") /\ Advance(p)
             ELSE /\ Note(p, requestData, "run")
                  /\ Goto(p, "g_decl")
                  /\ UNCHANGED idx
    /\ UNCHANGED <<requests, arg, result, uploaded, scratch, closure>>

\* Lines 316-349: declarationService.findById, the placeholder mapping and
\* the rendered texts.
GeneratePdf_FindDeclaration(p) ==
    /\ pc[p] = "g_decl"
    /\ \/ \* the Template Store read fails
          Catch(p)
       \/ \* the declaration has been removed from the Template Store since
          Settle(p, "nodecl") /\ Advance(p)
       \/ IF findDeclarationById(requests[CurrentId(p)].declaration) = NULL
             THEN Settle(p, "nodecl") /\ Advance(p)
             ELSE IF requests[CurrentId(p)].user = NULL
                     THEN \* requestData.user is null: reading .name throws
                          Catch(p)
                     ELSE Goto(p, "g_render") /\ UNCHANGED <<idx, hist>>
    /\ UNCHANGED <<requests, arg, result, uploaded, scratch, closure>>

\* Lines 351-356 and generatePdfFile: the pdf is written to tmp/ and read back.
GeneratePdf_Render(p) ==
    /\ pc[p] = "g_render"
    /\ \/ /\ scratch' = [scratch EXCEPT ![p] = @ \cup {FileName(p)}]
          /\ Goto(p, "g_upload")
          /\ UNCHANGED <<idx, hist>>
       \/ \* the stream fails before the file exists
          /\ Catch(p)
          /\ UNCHANGED scratch
       \/ \* the stream fails later, or the file read back is empty
          /\ scratch' = [scratch EXCEPT ![p] = @ \cup {FileName(p)}]
          /\ Catch(p)
    /\ UNCHANGED <<requests, arg, result, uploaded, closure>>

\* Lines 358-363: uploadStorage.
GeneratePdf_Upload(p) ==
    /\ pc[p] = "g_upload"
    /\ \/ /\ uploaded' = [uploaded EXCEPT ![p] = @ \cup {FileName(p)}]
          /\ Goto(p, "g_write")
          /\ UNCHANGED <<idx, hist>>
       \/ Catch(p) /\ UNCHANGED uploaded
    /\ UNCHANGED <<requests, arg, result, scratch, closure>>

\* Lines 365-373: requestRepository.update.
GeneratePdf_Write(p) ==
    /\ pc[p] = "g_write"
    /\ \/ /\ requests' = [requests EXCEPT ![CurrentId(p)] = GenerationUpdate(@, p)]
          /\ Goto(p, "g_read")
          /\ UNCHANGED <<idx, hist>>
       \/ Catch(p) /\ UNCHANGED requests
    /\ UNCHANGED <<arg, result, uploaded, scratch, closure>>

\* Lines 375-384: read back, push the view, unlink the scratch file.
GeneratePdf_Read(p) ==
    /\ pc[p] = "g_read"
    /\ \/ /\ result' = [result EXCEPT ![p] =
                Append(@, [id |-> CurrentId(p),
                           status |-> requests[CurrentId(p)].status,
                           url |-> requests[CurrentId(p)].url])]
          /\ scratch' = [scratch EXCEPT ![p] = @ \ {FileName(p)}]
          /\ Settle(p, "ok")
          /\ Advance(p)
       \/ Catch(p) /\ UNCHANGED <<result, scratch>>
    /\ UNCHANGED <<requests, arg, uploaded, closure>>

(***************************************************************************)
(* The caller receives the response; the slot is free for the next call.   *)
(***************************************************************************)
Respond(p) ==
    /\ pc[p] = "done"
    /\ pc' = [pc EXCEPT ![p] = "idle"]
    /\ arg' = [arg EXCEPT ![p] = NoArg]
    /\ idx' = [idx EXCEPT ![p] = 0]
    /\ result' = [result EXCEPT ![p] = <<>>]
    /\ outcome' = [outcome EXCEPT ![p] = Running]
    /\ hist' = [hist EXCEPT ![p] = <<>>]
    /\ uploaded' = [uploaded EXCEPT ![p] = {}]
    /\ scratch' = [scratch EXCEPT ![p] = {}]
    /\ UNCHANGED <<requests, closure>>

\* requestIds lists of at most n ids.  The ids are those the table can come
\* to hold: an id beyond its current length matches no row.
Batches(n) == UNION {[1 .. k -> 1 .. MaxRequests] : k \in 0 .. n}

Step(p, requesterIds, attendantIds, declarationIds, n) ==
    \/ \E u \in requesterIds, d \in declarationIds : CreateRequest_Begin(p, u, d)
    \/ CreateRequest_FindDeclaration(p)
    \/ CreateRequest_Check(p)
    \/ CreateRequest_Save(p)
    \/ \E u \in attendantIds, ids \in Batches(n), s \in RequestStatus :
          UpdateStatus_Begin(p, u, ids, s)
    \/ UpdateStatus_Load(p)
    \/ UpdateStatus_Write(p)
    \/ UpdateStatus_Read(p)
    \/ \E u \in attendantIds, ids \in Batches(n) : GeneratePdf_Begin(p, u, ids)
    \/ GeneratePdf_Load(p)
    \/ GeneratePdf_FindDeclaration(p)
    \/ GeneratePdf_Render(p)
    \/ GeneratePdf_Upload(p)
    \/ GeneratePdf_Write(p)
    \/ GeneratePdf_Read(p)
    \/ Respond(p)

\* Calls one after the other: a single slot is ever in use.
Next == Step(1, CallerIds, CallerIds, DeclarationIds, MaxBatch)

Spec == Init /\ [][Next]_vars

\* Calls in flight together, interleaved at their suspension points.
NextConcurrent ==
    \E p \in Procs :
        Step(p, ConcurrentRequesterIds, ConcurrentAttendantIds,
             ConcurrentDeclarationIds, MaxConcurrentBatch)

SpecConcurrent == Init /\ [][NextConcurrent]_vars

(***************************************************************************)
(* The local closures of generatePdf (lines 278-295), applied on their own *)
(* to arguments drawn from bounded sets.  A string is the sequence of its  *)
(* characters.                                                             *)
(***************************************************************************)
Strings(alphabet, n) == UNION {[1 .. k -> alphabet] : k \in 0 .. n}

Digits == {"0", "1", "2", "3", "4", "5", "6", "7", "8", "9"}

\* String.prototype.padStart: no padding and no cut for a string that is
\* already targetLength long or longer.
padStart(str, targetLength, padString) ==
    IF Len(str) >= targetLength
       THEN str
       ELSE [i \in 1 .. targetLength - Len(str) |-> padString] \o str

\* String.prototype.slice(begin, end) and slice(begin), 0 <= begin <= end.
slice(str, begin, end) ==
    SubSeq(str, begin + 1, IF end < Len(str) THEN end ELSE Len(str))

sliceFrom(str, begin) == SubSeq(str, begin + 1, Len(str))

\* Lines 291-295.
formatCep(cep) ==
    LET sanitizedCep == SelectSeq(cep, LAMBDA c : c \in Digits)
        paddedCep == padStart(sanitizedCep, 8, "0")
    IN  slice(paddedCep, 0, 5) \o <<"-">> \o sliceFrom(paddedCep, 5)

\* The postal codes formatCep is applied to: the strings over a digit, a
\* second digit and a separator, and three codes of the documentation.
CepChars == {"0", "5", "-"}
CepExamples ==
    {<<"1", "2", "3", "4", "5", "6", "7">>,
     <<"0", "1", "3", "1", "0", "-", "1", "0", "0">>,
     <<"1", "2", "3">>}
CepInputs == CepExamples \cup Strings(CepChars, MaxCepLen)

InitFormatCep ==
    /\ Idle
    /\ \E cep \in CepInputs :
          closure = [fn |-> "formatCep", cep |-> cep, returned |-> FALSE,
                     value |-> <<>>]

\* Line 333: formatCep(requestData.user.postal_code).
FormatCep ==
    /\ closure.fn = "formatCep"
    /\ ~closure.returned
    /\ closure' = [closure EXCEPT !.returned = TRUE,
                                  !.value = formatCep(closure.cep)]
    /\ UNCHANGED serviceVars

NextFormatCep == FormatCep

SpecFormatCep == InitFormatCep /\ [][NextFormatCep]_vars

\* A template and a placeholder value are sequences of pieces: a piece is a
\* token {{key}}, the replacement pattern $& or a run of plain text.
Token(key) == "{{" \o key \o "}}"

\* The keys of the mapping in the order Object.entries yields them (the
\* first two of lines 325-338), and a key the mapping does not have.
PlaceholderKeys == <<"nome", "rua">>
UnsuppliedKeys == {"email"}

TemplatePieces ==
    {Token(PlaceholderKeys[i]) : i \in DOMAIN PlaceholderKeys}
        \cup {Token(k) : k \in UnsuppliedKeys} \cup {"texto"}
ValuePieces ==
    {Token(PlaceholderKeys[i]) : i \in DOMAIN PlaceholderKeys}
        \cup {"$&", "texto"}

\* A replacement string as String.prototype.replace inserts it: $& stands for
\* the matched text.
Replacement(value, matched) ==
    [i \in 1 .. Len(value) |-> IF value[i] = "$&" THEN matched ELSE value[i]]

\* result.replace(new RegExp(`{{${key}}}`, 'g'), value): one pass over the
\* text; what is inserted is not searched again.
RECURSIVE replace(_, _, _)
replace(text, key, value) ==
    IF text = <<>>
       THEN <<>>
       ELSE (IF Head(text) = Token(key) THEN Replacement(value, Head(text))
                                        ELSE <<Head(text)>>)
               \o replace(Tail(text), key, value)

\* Object.entries(data).reduce(..., template): entries are <<key, value>>.
RECURSIVE reduce(_, _)
reduce(entries, accumulator) ==
    IF entries = <<>>
       THEN accumulator
       ELSE reduce(Tail(entries),
                   replace(accumulator, Head(entries)[1], Head(entries)[2]))

\* Lines 278-285.
replacePlaceholders(template, data) == reduce(data, template)

\* The mappings: one value for each key, in the order of the keys.
Mappings ==
    {[i \in DOMAIN PlaceholderKeys |-> <<PlaceholderKeys[i], v[i]>>] :
        v \in [DOMAIN PlaceholderKeys -> Strings(ValuePieces, MaxValueLen)]}

InitReplacePlaceholders ==
    /\ Idle
    /\ \E template \in Strings(TemplatePieces, MaxTemplateLen), data \in Mappings :
          closure = [fn |-> "replacePlaceholders", template |-> template,
                     data |-> data, returned |-> FALSE, value |-> <<>>]

\* Lines 341-346: replacePlaceholders(declaration.content, userData).
ReplacePlaceholders ==
    /\ closure.fn = "replacePlaceholders"
    /\ ~closure.returned
    /\ closure' = [closure EXCEPT
                      !.returned = TRUE,
                      !.value = replacePlaceholders(closure.template,
                                                    closure.data)]
    /\ UNCHANGED serviceVars

NextReplacePlaceholders == ReplacePlaceholders

SpecReplacePlaceholders ==
    InitReplacePlaceholders /\ [][NextReplacePlaceholders]_vars

(***************************************************************************)
(* Vocabulary of the properties.                                           *)
(***************************************************************************)
Rows == 1 .. Len(requests)

\* The caller id resolves to a user whose admin flag is true.
ResolvesToAdmin(userId) ==
    userId \in DOMAIN UserStore /\ UserStore[userId].is_admin

\* The caller id resolves to a user whose admin flag is false.
ResolvesToNonAdmin(userId) ==
    userId \in DOMAIN UserStore /\ ~UserStore[userId].is_admin

\* Slot p takes a step.
Acts(p) == <<pc[p], idx[p]>> # <<pc'[p], idx'[p]>>

\* Slot p ends its call in this step.
Ends(p) == pc[p] # "done" /\ pc'[p] = "done"

Finished(p, op) == pc[p] = "done" /\ arg[p].op = op

\* What the caller receives: the list, when the call returned.
Response(p) == IF outcome[p] = Returned THEN result[p] ELSE <<>>

Range(seq) == {seq[i] : i \in 1 .. Len(seq)}

(***************************************************************************)
(* C1.  Every change of a request's status is PENDING -> PROCESSING made   *)
(* by generatePdf, or PROCESSING -> COMPLETED / REJECTED made by           *)
(* updateStatus; no other status change occurs.                            *)
(***************************************************************************)
C1_AllowedChange(i) ==
    \/ requests'[i].status = requests[i].status
    \/ \E p \in Procs :
          /\ Acts(p)
          /\ \/ /\ arg[p].op = "generatePdf"
                /\ requests[i].status = PENDING
                /\ requests'[i].status = PROCESSING
             \/ /\ arg[p].op = "updateStatus"
                /\ requests[i].status = PROCESSING
                /\ requests'[i].status \in {COMPLETED, REJECTED}

C1_OnlyLifecycleTransitions == [][\A i \in Rows : C1_AllowedChange(i)]_vars

(***************************************************************************)
(* C2.  Every request satisfies: status = PENDING implies url and          *)
(* generation timestamp are null; url non-null implies status # PENDING.   *)
(***************************************************************************)
C2_PendingHasNoArtifact ==
    \A i \in Rows :
        /\ requests[i].status = PENDING =>
              requests[i].url = NoUrl /\ requests[i].generation_date = NoDate
        /\ requests[i].url # NoUrl => requests[i].status # PENDING

(***************************************************************************)
(* C3.  Once a request's status is COMPLETED or REJECTED it never changes  *)
(* again, under every interleaving of updateStatus and generatePdf calls.  *)
(***************************************************************************)
C3_TerminalIsFinal ==
    [][\A i \in Rows : requests[i].status \in {COMPLETED, REJECTED} =>
                          requests'[i].status = requests[i].status]_vars

(***************************************************************************)
(* C4.  With calls one after the other, each (user, declaration) pair has  *)
(* at most one request with status PENDING.                                *)
(***************************************************************************)
PendingOf(user, declarationId) ==
    {i \in Rows : /\ requests[i].user = user
                  /\ requests[i].declaration = declarationId
                  /\ requests[i].status = PENDING}

C4_AtMostOnePending ==
    \A u \in DOMAIN UserStore, d \in DeclarationStore :
        Cardinality(PendingOf(u, d)) <= 1

(***************************************************************************)
(* C5.  With no concurrent calls, createRequest(U, D) by a non-admin user  *)
(* U for an existing declaration D fails with Conflict and creates nothing *)
(* when U owns a PENDING request for D; otherwise it succeeds and adds     *)
(* exactly one new request, PENDING, for (U, D).  No other step of a       *)
(* createRequest call touches the table.                                   *)
(***************************************************************************)
C5_CreateStep(p) ==
    LET U == arg'[p].caller
        D == arg'[p].declaration
    IN  /\ (Acts(p) /\ arg'[p].op = "createRequest" /\ ~Ends(p)) =>
              requests' = requests
        /\ (Ends(p) /\ arg'[p].op = "createRequest"
                    /\ ResolvesToNonAdmin(U) /\ D \in DeclarationStore) =>
              IF PendingOf(U, D) # {}
                 THEN /\ outcome'[p].exc = "ConflictException"
                      /\ requests' = requests
                 ELSE /\ outcome'[p] = Returned
                      /\ Len(requests') = Len(requests) + 1
                      /\ SubSeq(requests', 1, Len(requests)) = requests
                      /\ requests'[Len(requests')] =
                            [user |-> U, declaration |-> D, status |-> PENDING,
                             url |-> NoUrl, generation_date |-> NoDate,
                             attendant |-> NULL]

C5_ConflictOrOneNewRequest == [][\A p \in Procs : C5_CreateStep(p)]_vars

\* A createRequest was refused with Conflict.
C5_Witness ==
    /\ Finished(1, "createRequest")
    /\ ResolvesToNonAdmin(arg[1].caller)
    /\ outcome[1].exc = "ConflictException"
    /\ PendingOf(arg[1].caller, arg[1].declaration) # {}

\* A createRequest succeeded although the user had a request for the same
\* declaration that is no longer PENDING.
C5_WitnessSuccess ==
    /\ Finished(1, "createRequest")
    /\ outcome[1] = Returned
    /\ Len(requests) = 2
    /\ requests[1].user = requests[2].user
    /\ requests[1].declaration = requests[2].declaration
    /\ requests[1].status # PENDING

(***************************************************************************)
(* C6.  createRequest by an admin fails with PermissionDenied; by a        *)
(* non-admin with a declaration id that does not exist it fails with       *)
(* NotFound, not Conflict and not PermissionDenied; no request is created. *)
(***************************************************************************)
C6_AdminDeniedMissingNotFound ==
    \A p \in Procs :
        Finished(p, "createRequest") =>
            /\ ResolvesToAdmin(arg[p].caller) =>
                  /\ outcome[p].exc = "ForbiddenException"
                  /\ result[p] = <<>>
            /\ (ResolvesToNonAdmin(arg[p].caller)
                  /\ arg[p].declaration \notin DeclarationStore) =>
                  /\ outcome[p].exc = "NotFoundException"
                  /\ result[p] = <<>>

(***************************************************************************)
(* C7.  updateStatus and generatePdf called with an id that does not       *)
(* resolve to an admin fail with PermissionDenied before touching any      *)
(* request: such a call is never past its guard.                           *)
(***************************************************************************)
C7_NonAdminDenied ==
    \A p \in Procs :
        (arg[p].op \in {"updateStatus", "generatePdf"}
            /\ ~ResolvesToAdmin(arg[p].caller)) =>
            /\ pc[p] = "done"
            /\ outcome[p].exc = "ForbiddenException"
            /\ result[p] = <<>>
            /\ hist[p] = <<>>
            /\ uploaded[p] = {}

(***************************************************************************)
(* C8.  For every existing request id of an updateStatus call and every    *)
(* target: if the current status is COMPLETED or REJECTED, or the target   *)
(* is COMPLETED or REJECTED and the current status is not PROCESSING, the  *)
(* request is left unchanged and omitted from the result; otherwise its    *)
(* status becomes the target and its post-update view is in the result.    *)
(***************************************************************************)
C8_Passed(current, target) ==
    \/ current \in {COMPLETED, REJECTED}
    \/ (target \in {COMPLETED, REJECTED} /\ current # PROCESSING)

C8_Rule(p, i) ==
    LET id == arg[p].ids[i]
        target == arg[p].status
    IN  /\ i <= Len(hist[p])
        /\ IF C8_Passed(hist[p][i].seen.status, target)
              THEN /\ hist[p][i].fate = "skip"
                   /\ requests[id] = hist[p][i].seen
                   /\ (\A j \in 1 .. Len(hist[p]) :
                          hist[p][j].id = id => hist[p][j].fate = "skip")
                         => \A v \in Range(Response(p)) : v.id # id
              ELSE /\ requests[id].status = target
                   /\ [id |-> id, status |-> target] \in Range(Response(p))

C8_SkipOrUpdate ==
    \A p \in Procs :
        (Finished(p, "updateStatus") /\ ResolvesToAdmin(arg[p].caller)) =>
            \A i \in 1 .. Len(arg[p].ids) :
                Exists(requests, arg[p].ids[i]) => C8_Rule(p, i)

\* The same rule over the calls that returned: it holds of them, so C8 fails
\* only where a call is aborted by an exception.
C8_RuleWhenReturned ==
    \A p \in Procs :
        (Finished(p, "updateStatus") /\ outcome[p] = Returned) =>
            \A i \in 1 .. Len(arg[p].ids) :
                Exists(requests, arg[p].ids[i]) => C8_Rule(p, i)

(***************************************************************************)
(* C9.  In a generatePdf call by an admin, an id that is missing or whose  *)
(* request is not PENDING when loaded is skipped: the request is           *)
(* unchanged, nothing is published for it and it is absent from the        *)
(* result.  A batch of one PENDING id and one COMPLETED id returns exactly *)
(* one entry, the formerly PENDING request, now PROCESSING with a url.     *)
(***************************************************************************)
C9_Skipped(p, i) ==
    LET e == hist[p][i] IN
    e.seen.status \notin {PENDING, "unread"} =>
        /\ e.fate = "skip"
        /\ <<e.id, p, i>> \notin (uploaded[p] \cup scratch[p])
        /\ Exists(requests, e.id) => requests[e.id] = e.seen
        /\ ~Exists(requests, e.id) => e.seen = NoRow
        /\ \A v \in Range(result[p]) :
              v.id = e.id => \E j \in 1 .. Len(hist[p]) :
                                j # i /\ hist[p][j].id = e.id
                                      /\ hist[p][j].fate = "ok"

C9_PendingAndCompleted(p, a, b) ==
    (/\ Finished(p, "generatePdf")
     /\ Len(arg[p].ids) = 2
     /\ Len(hist[p]) = 2
     /\ hist[p][a].seen.status = PENDING
     /\ hist[p][a].fate = "ok"
     /\ hist[p][b].seen.status = COMPLETED) =>
        /\ outcome[p] = Returned
        /\ Len(result[p]) = 1
        /\ result[p][1].id = arg[p].ids[a]
        /\ result[p][1].status = PROCESSING
        /\ result[p][1].url # NoUrl
        /\ requests[arg[p].ids[a]].status = PROCESSING
        /\ requests[arg[p].ids[a]].url = result[p][1].url
        /\ requests[arg[p].ids[b]] = hist[p][b].seen

C9_NonPendingSkipped ==
    \A p \in Procs :
        (arg[p].op = "generatePdf" /\ ResolvesToAdmin(arg[p].caller)) =>
            /\ \A i \in 1 .. Len(hist[p]) : C9_Skipped(p, i)
            /\ C9_PendingAndCompleted(p, 1, 2)
            /\ C9_PendingAndCompleted(p, 2, 1)

\* An admin's batch of a COMPLETED id and a PENDING id has returned.
C9_Witness ==
    /\ Finished(1, "generatePdf")
    /\ ResolvesToAdmin(arg[1].caller)
    /\ Len(hist[1]) = 2
    /\ hist[1][1].seen.status = COMPLETED
    /\ hist[1][1].fate = "skip"
    /\ hist[1][2].seen.status = PENDING
    /\ hist[1][2].fate = "ok"
    /\ Len(result[1]) = 1

(***************************************************************************)
(* C10.  In a generatePdf call a failure while processing one id never     *)
(* aborts the batch: the call returns normally, every id of the list is    *)
(* taken up, and every id that was PENDING when loaded and whose           *)
(* processing ran through ends the call PROCESSING with a url and is in    *)
(* the result, whether it comes before or after the failing id.            *)
(***************************************************************************)
C10_FailureIsIsolated ==
    \A p \in Procs :
        (Finished(p, "generatePdf") /\ outcome[p].exc # "ForbiddenException") =>
            /\ outcome[p] = Returned
            /\ Len(hist[p]) = Len(arg[p].ids)
            /\ \A i \in 1 .. Len(hist[p]) :
                  /\ hist[p][i].fate \in {"skip", "nodecl", "error", "ok"}
                  /\ (hist[p][i].seen.status = PENDING /\ hist[p][i].fate = "ok") =>
                        LET id == hist[p][i].id IN
                        /\ requests[id].status = PROCESSING
                        /\ requests[id].url # NoUrl
                        /\ [id |-> id, status |-> PROCESSING,
                            url |-> requests[id].url] \in Range(result[p])

\* A batch whose first id failed after it was loaded PENDING and whose second
\* id went through.
C10_Witness ==
    /\ Finished(1, "generatePdf")
    /\ Len(hist[1]) = 2
    /\ hist[1][1].seen.status = PENDING
    /\ hist[1][1].fate = "error"
    /\ hist[1][2].fate = "ok"
    /\ Len(result[1]) = 1

\* A batch whose first id went through and whose second id failed.
C10_WitnessFailureLast ==
    /\ Finished(1, "generatePdf")
    /\ Len(hist[1]) = 2
    /\ hist[1][1].fate = "ok"
    /\ hist[1][2].seen.status = PENDING
    /\ hist[1][2].fate = "error"
    /\ Len(result[1]) = 1

(***************************************************************************)
(* C11.  When the processing of an id in generatePdf fails at a step       *)
(* before the update (the declaration lookup, the placeholder mapping,     *)
(* the rendering, the upload), the request is left exactly as it was:      *)
(* status PENDING, url, generation_date and attendant null.                *)
(***************************************************************************)
\* Slot p gives up the id in progress at a step before the update.
C11_FailsBeforeUpdate(p) ==
    /\ arg[p].op = "generatePdf"
    /\ pc[p] \in {"g_decl", "g_render", "g_upload"}
    /\ hist'[p][idx[p]].fate \in {"nodecl", "error"}

C11_LeftPendingAndNull ==
    [][\A p \in Procs :
          C11_FailsBeforeUpdate(p) =>
              /\ requests' = requests
              /\ requests'[CurrentId(p)].status = PENDING
              /\ requests'[CurrentId(p)].url = NoUrl
              /\ requests'[CurrentId(p)].generation_date = NoDate
              /\ requests'[CurrentId(p)].attendant = NULL]_vars

\* What holds of such a failure: the table is untouched, and the request is
\* the row the call loaded, still PENDING.
C11_LeftAsLoaded ==
    [][\A p \in Procs :
          C11_FailsBeforeUpdate(p) =>
              /\ requests' = requests
              /\ requests'[CurrentId(p)] = hist[p][idx[p]].seen
              /\ requests'[CurrentId(p)].status = PENDING]_vars

\* A request whose processing failed before the update in an earlier batch
\* has gone through in a later one.
C11_Resubmitted ==
    /\ Finished(1, "generatePdf")
    /\ Len(hist[1]) = 2
    /\ hist[1][1].id = hist[1][2].id
    /\ hist[1][1].seen.status = PENDING
    /\ hist[1][1].fate = "error"
    /\ uploaded[1] = {<<hist[1][2].id, 1, 2>>}
    /\ hist[1][2].seen = hist[1][1].seen
    /\ hist[1][2].fate = "ok"

(***************************************************************************)
(* C12.  When a generatePdf call returns, its result has an entry for an   *)
(* id exactly when this call made the update that set the request to       *)
(* PROCESSING with a url: no request is moved to PROCESSING by the call    *)
(* and left out of the result, whichever collaborator call fails.          *)
(***************************************************************************)
\* With calls one after the other, a request the call loaded PENDING and
\* that is PROCESSING now was updated by this call.
C12_UpdatedBy(p, id) ==
    \E i \in 1 .. Len(hist[p]) :
        /\ hist[p][i].id = id
        /\ hist[p][i].seen.status = PENDING
        /\ requests[id].status = PROCESSING
        /\ requests[id].url # NoUrl

C12_InResult(p, id) == \E v \in Range(Response(p)) : v.id = id

C12_ResultIffUpdated ==
    \A p \in Procs :
        Finished(p, "generatePdf") =>
            \A id \in 1 .. MaxRequests : C12_InResult(p, id) <=> C12_UpdatedBy(p, id)

\* The direction that holds: every entry of the result is a request this
\* call updated.
C12_ResultOnlyIfUpdated ==
    \A p \in Procs :
        Finished(p, "generatePdf") =>
            \A id \in 1 .. MaxRequests : C12_InResult(p, id) => C12_UpdatedBy(p, id)

(***************************************************************************)
(* C13.  In every reachable state the url, generation_date and attendant   *)
(* of a request are all null or all non-null.                              *)
(***************************************************************************)
C13_ArtifactFieldsTogether ==
    \A i \in Rows :
        \/ /\ requests[i].url = NoUrl
           /\ requests[i].generation_date = NoDate
           /\ requests[i].attendant = NULL
        \/ /\ requests[i].url # NoUrl
           /\ requests[i].generation_date # NoDate
           /\ requests[i].attendant # NULL

\* What holds: url and generation_date are null together, and no step other
\* than the update of generatePdf writes any of the three.
C13_WrittenByGenerationOnly ==
    [][\A i \in Rows :
          /\ (requests'[i].url = NoUrl) <=> (requests'[i].generation_date = NoDate)
          /\ <<requests'[i].url, requests'[i].generation_date, requests'[i].attendant>>
                # <<requests[i].url, requests[i].generation_date, requests[i].attendant>>
                => \E p \in Procs :
                      /\ pc[p] = "g_write"
                      /\ CurrentId(p) = i
                      /\ requests'[i] = GenerationUpdate(requests[i], p)]_vars

(***************************************************************************)
(* C14.  The file generatePdf writes to tmp/ for an id is removed before   *)
(* the next id is taken up, on every exit path of the item: when the call  *)
(* has ended or is at the head of its loop, no file it wrote remains.      *)
(***************************************************************************)
C14_ScratchReleased ==
    \A p \in Procs :
        (arg[p].op = "generatePdf" /\ pc[p] \in {"generatePdf", "done"}) =>
            scratch[p] = {}

\* What holds: an item that ran through leaves no file of its own.
C14_ReleasedWhenThrough ==
    \A p \in Procs :
        (arg[p].op = "generatePdf" /\ pc[p] \in {"generatePdf", "done"}) =>
            \A i \in 1 .. Len(hist[p]) :
                hist[p][i].fate \in {"ok", "skip", "nodecl"} =>
                    <<hist[p][i].id, p, i>> \notin scratch[p]

(***************************************************************************)
(* C15.  Two createRequest calls in flight together, by the same non-admin *)
(* user for the same declaration, can both pass the pending check before   *)
(* either inserts: a call whose check has passed inserts its PENDING       *)
(* request and succeeds whatever the other call has inserted meanwhile, so *)
(* two PENDING requests of one (user, declaration) pair are reachable.     *)
(***************************************************************************)
C15_InsertsAfterCheckPassed ==
    [][\A p \in Procs :
          (pc[p] = "c_save" /\ Acts(p)) =>
              /\ outcome'[p] = Returned
              /\ requests' = Append(requests,
                                    NewRequest(findById(arg[p].caller),
                                               arg[p].declaration))
              /\ result'[p] = <<Len(requests')>>]_vars

\* Both calls have passed the check and neither has inserted yet.
C15_BothPassedCheck ==
    /\ pc[1] = "c_save" /\ pc[2] = "c_save"
    /\ arg[1].caller = arg[2].caller
    /\ arg[1].declaration = arg[2].declaration
    /\ PendingOf(arg[1].caller, arg[1].declaration) = {}

\* Both calls have succeeded and the pair has two PENDING requests.
C15_Witness ==
    /\ Finished(1, "createRequest") /\ Finished(2, "createRequest")
    /\ outcome[1] = Returned /\ outcome[2] = Returned
    /\ ResolvesToNonAdmin(arg[1].caller)
    /\ arg[1].caller = arg[2].caller
    /\ arg[1].declaration = arg[2].declaration
    /\ result[1] # result[2]
    /\ PendingOf(arg[1].caller, arg[1].declaration) = {result[1][1], result[2][1]}

(***************************************************************************)
(* C16.  Two generatePdf calls in flight together whose lists hold the     *)
(* same PENDING id can both load it PENDING, each render and publish its   *)
(* own file and each report the request in its result; the request ends    *)
(* PROCESSING with the url, generation_date and attendant of the update    *)
(* applied last: an update overwrites what an earlier one had written.     *)
(***************************************************************************)
\* The url and generation_date the update of slot q writes for an id.
C16_StampOf(row, id, q) ==
    /\ row.url = <<id, q>>
    /\ row.generation_date = <<q>>

C16_LastUpdateWins ==
    [][\A p \in Procs :
          /\ (pc[p] = "g_write" /\ pc'[p] = "g_read") =>
                /\ FileName(p) \in uploaded[p]
                /\ requests'[CurrentId(p)].status = PROCESSING
                /\ requests'[CurrentId(p)].attendant = arg[p].caller
                /\ C16_StampOf(requests'[CurrentId(p)], CurrentId(p), p)
          /\ (pc[p] = "g_read" /\ Acts(p) /\ hist'[p][idx[p]].fate = "ok") =>
                /\ hist[p][idx[p]].seen.status = PENDING
                /\ \E q \in Procs :
                      C16_StampOf(requests[CurrentId(p)], CurrentId(p), q)
                /\ result'[p][Len(result'[p])] =
                      [id |-> CurrentId(p),
                       status |-> requests[CurrentId(p)].status,
                       url |-> requests[CurrentId(p)].url]]_vars

\* Both calls loaded request 1 PENDING, published their own file and
\* reported the request; call 2 updated first (it reports the url of call 1,
\* whose update came before its read-back) and the request holds what call 1
\* wrote.
C16_Witness ==
    /\ Finished(1, "generatePdf") /\ Finished(2, "generatePdf")
    /\ \A p \in Procs :
          /\ arg[p].ids = <<1>>
          /\ hist[p][1].seen.status = PENDING
          /\ hist[p][1].fate = "ok"
          /\ uploaded[p] = {<<1, p, 1>>}
          /\ Len(result[p]) = 1
          /\ result[p][1].id = 1
    /\ result[2][1].url = <<1, 1>>
    /\ requests[1].status = PROCESSING
    /\ requests[1].url = <<1, 1>>
    /\ requests[1].generation_date = <<1>>

(***************************************************************************)
(* C17.  When the requestIds of a single generatePdf call, no other call   *)
(* running, hold the same PENDING id twice, both occurrences can render    *)
(* and publish a file for the request.  The ids are processed one after    *)
(* the other: the second occurrence is taken up exactly when the first     *)
(* left the request PENDING, and then it publishes a file of its own.      *)
(***************************************************************************)
C17_SameIdTwice(p) ==
    /\ Finished(p, "generatePdf")
    /\ Len(hist[p]) = 2
    /\ hist[p][1].id = hist[p][2].id
    /\ hist[p][1].seen.status = PENDING

C17_SecondOccurrence ==
    \A p \in Procs :
        C17_SameIdTwice(p) =>
            LET id == hist[p][1].id
                first == hist[p][1]
                second == hist[p][2]
            IN  /\ first.fate = "ok" =>
                      /\ second.seen.status \in {PROCESSING, "unread"}
                      /\ second.fate \in {"skip", "error"}
                      /\ uploaded[p] = {<<id, p, 1>>}
                /\ second.seen.status \in {PENDING, PROCESSING, "unread"}
                /\ second.seen.status = PENDING =>
                      /\ first.fate \in {"nodecl", "error"}
                      /\ second.seen = first.seen
                /\ <<id, p, 2>> \in uploaded[p] => second.seen.status = PENDING
                /\ second.fate = "ok" =>
                      /\ <<id, p, 2>> \in uploaded[p]
                      /\ requests[id].status = PROCESSING
                      /\ Len(result[p]) = 1

\* Both occurrences of the id have published a file.
C17_Witness ==
    /\ C17_SameIdTwice(1)
    /\ uploaded[1] = {<<hist[1][1].id, 1, 1>>, <<hist[1][1].id, 1, 2>>}
    /\ hist[1][2].seen.status = PENDING
    /\ hist[1][2].fate = "ok"

(***************************************************************************)
(* C18.  updateStatus treats the ids of requestIds independently: an id    *)
(* that matches no request does not make the call fail and does not keep   *)
(* the other ids of the list from being taken up, each being passed over   *)
(* or updated on its own status and the target.                            *)
(***************************************************************************)
C18_MissingIdIsPassedOver ==
    \A p \in Procs :
        (/\ Finished(p, "updateStatus")
         /\ ResolvesToAdmin(arg[p].caller)
         /\ \E i \in 1 .. Len(arg[p].ids) : ~Exists(requests, arg[p].ids[i])) =>
            /\ outcome[p] = Returned
            /\ Len(hist[p]) = Len(arg[p].ids)
            /\ \A j \in 1 .. Len(hist[p]) :
                  Exists(requests, hist[p][j].id) =>
                      \/ hist[p][j].fate = "skip"
                      \/ requests[hist[p][j].id].status = arg[p].status

\* What holds: the call ends with a TypeError at the first id that matches
\* no request, the ids after it untouched.
C18_MissingIdAborts ==
    \A p \in Procs :
        (/\ Finished(p, "updateStatus")
         /\ ResolvesToAdmin(arg[p].caller)
         /\ \E i \in 1 .. Len(arg[p].ids) : ~Exists(requests, arg[p].ids[i])) =>
            /\ outcome[p].exc = "TypeError"
            /\ Response(p) = <<>>
            /\ Len(hist[p]) <= Len(arg[p].ids)
            /\ \A j \in 1 .. Len(hist[p]) - 1 : Exists(requests, hist[p][j].id)

(***************************************************************************)
(* C19.  For every postal code formatCep returns a string of the form      *)
(* NNNNN-NNN: exactly five digits, a hyphen, exactly three digits; and     *)
(* "1234567" gives "01234-567", "01310-100" gives "01310-100", "123" gives *)
(* "00000-123".                                                            *)
(***************************************************************************)
C19_IsNNNNN_NNN(str) ==
    /\ Len(str) = 9
    /\ \A i \in 1 .. 5 : str[i] \in Digits
    /\ str[6] = "-"
    /\ \A i \in 7 .. 9 : str[i] \in Digits

C19_Examples ==
    /\ formatCep(<<"1", "2", "3", "4", "5", "6", "7">>)
          = <<"0", "1", "2", "3", "4", "-", "5", "6", "7">>
    /\ formatCep(<<"0", "1", "3", "1", "0", "-", "1", "0", "0">>)
          = <<"0", "1", "3", "1", "0", "-", "1", "0", "0">>
    /\ formatCep(<<"1", "2", "3">>)
          = <<"0", "0", "0", "0", "0", "-", "1", "2", "3">>

C19_FormIsNNNNN_NNN ==
    (closure.fn = "formatCep" /\ closure.returned) =>
        /\ C19_IsNNNNN_NNN(closure.value)
        /\ C19_Examples

\* What holds: the form for the postal codes of at most eight digits, the
\* three examples, and for every postal code a string of five digits, a
\* hyphen and the remaining digits, all the digits of the input in order.
C19_FormUpToEightDigits ==
    (closure.fn = "formatCep" /\ closure.returned) =>
        LET digits == SelectSeq(closure.cep, LAMBDA c : c \in Digits)
            value == closure.value
        IN  /\ Len(digits) <= 8 => C19_IsNNNNN_NNN(value)
            /\ C19_Examples
            /\ Len(value) = (IF Len(digits) < 8 THEN 8 ELSE Len(digits)) + 1
            /\ value[6] = "-"
            /\ LET all == SubSeq(value, 1, 5) \o SubSeq(value, 7, Len(value))
               IN  /\ \A i \in 1 .. Len(all) : all[i] \in Digits
                   /\ SubSeq(all, Len(all) - Len(digits) + 1, Len(all)) = digits
                   /\ \A i \in 1 .. Len(all) - Len(digits) : all[i] = "0"

(***************************************************************************)
(* C20.  For every template and every mapping, the text replacePlaceholders *)
(* returns holds no token {{key}} of a key the mapping supplies, whatever  *)
(* the values are, and every token of a key it does not supply is in the   *)
(* returned text as it was in the template.                                *)
(***************************************************************************)
C20_Supplied == {PlaceholderKeys[i] : i \in DOMAIN PlaceholderKeys}

C20_UnsuppliedTokens(text) ==
    SelectSeq(text, LAMBDA piece : piece \in {Token(k) : k \in UnsuppliedKeys})

C20_NoSuppliedTokenLeft ==
    (closure.fn = "replacePlaceholders" /\ closure.returned) =>
        /\ \A k \in C20_Supplied : Token(k) \notin Range(closure.value)
        /\ C20_UnsuppliedTokens(closure.value)
              = C20_UnsuppliedTokens(closure.template)

\* What holds: the tokens of unsupplied keys stay as they were, and when no
\* value holds a token or the pattern $& no token of a supplied key is left.
C20_NoSuppliedTokenLeftForPlainValues ==
    (closure.fn = "replacePlaceholders" /\ closure.returned) =>
        /\ C20_UnsuppliedTokens(closure.value)
              = C20_UnsuppliedTokens(closure.template)
        /\ (\A i \in DOMAIN closure.data :
               Range(closure.data[i][2]) \subseteq {"texto"}) =>
              \A k \in C20_Supplied : Token(k) \notin Range(closure.value)

=============================================================================
